---- MODULE Spec2Model ----
(***************************************************************************)
(* AICleaner content script (class AICleanerProcessor): the text           *)
(* transform, the node classifier, the tree scanner, the mutation          *)
(* monitor and the statistics merge, as a state machine.                   *)
(*                                                                         *)
(* A text is a sequence of characters; a character is named by a string:   *)
(*   "em" U+2014, "en" U+2013, "ldq" U+201C, "rdq" U+201D, "lsq" U+2018,   *)
(*   "rsq" U+2019, "ell" U+2026, "nbsp" U+00A0, "zwsp" U+200B,             *)
(*   "eacute" U+00E9, "times" U+00D7, "sp" U+0020, "nl" U+000A,            *)
(*   "dq" U+0022, "sq" U+0027, "dot" U+002E, "hy" U+002D, "a", "e".        *)
(***************************************************************************)
EXTENDS Integers, Sequences, FiniteSets, TLC

VARIABLES
    \* ---- transform library exercised on its own (SpecPure) ----
    tlData,         \* the stored keys the snapshot was loaded from
    tlSettings,     \* the settings snapshot the transform runs under
    tlInput,        \* the input text
    tlOnce,         \* applyTextFixes(tlInput), or NoResult
    tlTwice,        \* applyTextFixes(tlOnce.fixedText), or NoResult
    \* ---- host document ----
    text,           \* node -> textContent
    parent,         \* node -> description of node.parentElement
    pageLoaded,     \* document.readyState = "complete"
    now,            \* Date.now()
    \* ---- host document outside the light tree, and its faults ----
    where,          \* node -> the tree that holds it: "body", "shadow"
                    \* (a shadow root on an element of the document) or
                    \* "nested" (a shadow root on an element of a shadow tree)
    broken,         \* nodes whose textContent setter throws
    throwing,       \* nodes whose visit by the TreeWalker throws
    \* ---- chrome.storage.sync ----
    store,          \* the persisted keys
    \* ---- AICleanerProcessor fields ----
    isActive, observer, settings, replacementCount, processedNodes,
    lastScanTime,
    \* ---- control state of the asynchronous code ----
    initPc,         \* "loading": init() awaits loadSettings; "waitPage":
                    \* performInitialScan awaits the load event; "done"
    timers,         \* due times of the pending setTimeout callbacks
    pendingMut,     \* mutation records queued for the observer callback
    pendingLoads,   \* settingsUpdated requests waiting for storage.get
    merges,         \* updateStorageWithResults calls in flight, in the
                    \* order of their pending storage request
    \* ---- observation (history) variables ----
    epoch,          \* number of ProcessedSet resets so far
    writes,         \* node -> engine writes in the current epoch
    scans,          \* number of scans started
    lastScan,       \* the nodes the most recent scan accepted, wrote, logged
    lastStart,      \* start time of the most recent scan, if any
    docChanged,     \* host or settings changed since the last scan
    lastBatchScan,  \* arrival time of the last batch that started a scan
    lastBatch,      \* arrival time and outcome of the last batch delivered
    allEntries,     \* entries handed to merges, in scan order
    hostOps,        \* number of host/popup operations so far
    faults,         \* the failures so far: their kind and the number of
                    \* scans started before them
    \* ---- the message bus (chrome.runtime messages) ----
    probe,          \* the latest request that starts no scan and no load:
                    \* their number so far, its receiver and its action
    sent            \* the messages sent by the latest step of a request
                    \* handler or of updateStorageWithResults

tlVars == <<tlData, tlSettings, tlInput, tlOnce, tlTwice>>
docVars == <<text, parent, pageLoaded, now>>
envVars == <<where, broken, throwing>>
engVars == <<isActive, observer, settings, replacementCount,
             processedNodes, lastScanTime>>
ctlVars == <<initPc, timers, pendingMut, pendingLoads, merges>>
obsVars == <<epoch, writes, scans, lastScan, lastStart, docChanged,
             lastBatchScan, lastBatch, allEntries, hostOps, faults>>
busVars == <<probe, sent>>
vars == <<tlVars, docVars, envVars, store, engVars, ctlVars, obsVars, busVars>>

-----------------------------------------------------------------------------
(* Bounds *)

MaxLen == 3          \* longest input text given to the transform alone
MaxScans == 2        \* scans started in one run of the engine
MaxHostOps == 2      \* host and popup operations in one run

-----------------------------------------------------------------------------
(* Character classes: the regular expressions of applyTextFixes and        *)
(* needsProcessing.                                                        *)

DashChars == {"em", "en"}                    \* /[\u2014\u2013]/
CurlyDoubleChars == {"ldq", "rdq"}           \* /[\u201C\u201D]/
CurlySingleChars == {"lsq", "rsq"}           \* /[\u2018\u2019]/
CurlyQuoteChars == CurlyDoubleChars \cup CurlySingleChars
EllipsisChars == {"ell"}                     \* /\u2026/
InvisibleChars == {"nbsp", "zwsp"}           \* /[\u00A0\u2000-\u200F...]/
AccentRangeChars == {"eacute", "times"}      \* /[\u00C0-\u00FF]/
AccentMapChars == {"eacute"}                 \* keys of accentMap
AccentMap(c) == IF c = "eacute" THEN "e" ELSE c
WhitespaceChars == {"sp", "nl", "nbsp"}      \* /\s/
IsWhitespace(c) == c \in WhitespaceChars

\* text.match(regex).length, 0 when there is no match
CountIn(s, C) == Cardinality({i \in 1..Len(s) : s[i] \in C})

\* text.replace(regex, r) for a one-character class
RECURSIVE ReplaceIn(_, _, _)
ReplaceIn(s, C, r) ==
    IF s = <<>> THEN <<>>
    ELSE (IF Head(s) \in C THEN r ELSE <<Head(s)>>) \o ReplaceIn(Tail(s), C, r)

RECURSIVE MapAccents(_)
MapAccents(s) ==
    IF s = <<>> THEN <<>>
    ELSE <<(IF Head(s) \in AccentRangeChars THEN AccentMap(Head(s)) ELSE Head(s))>>
         \o MapAccents(Tail(s))

\* text.replace(/\s+/g, ' ')
RECURSIVE CollapseSpaces(_)
CollapseSpaces(s) ==
    IF s = <<>> THEN <<>>
    ELSE IF IsWhitespace(Head(s))
         THEN IF Len(s) > 1 /\ IsWhitespace(s[2])
              THEN CollapseSpaces(Tail(s))
              ELSE <<"sp">> \o CollapseSpaces(Tail(s))
         ELSE <<Head(s)>> \o CollapseSpaces(Tail(s))

\* text.match(/\s+/g).length (0 for null)
RECURSIVE SpaceRuns(_)
SpaceRuns(s) ==
    IF s = <<>> THEN 0
    ELSE (IF IsWhitespace(Head(s)) /\ ~(Len(s) > 1 /\ IsWhitespace(s[2]))
          THEN 1 ELSE 0) + SpaceRuns(Tail(s))

RECURSIVE TrimStart(_)
TrimStart(s) ==
    IF s # <<>> /\ IsWhitespace(Head(s)) THEN TrimStart(Tail(s)) ELSE s

RECURSIVE TrimEnd(_)
TrimEnd(s) ==
    IF s # <<>> /\ IsWhitespace(s[Len(s)])
    THEN TrimEnd(SubSeq(s, 1, Len(s) - 1)) ELSE s

Trim(s) == TrimEnd(TrimStart(s))

\* /\s{2,}/.test(text)
HasSpaceRun(s) == \E i \in 1..(Len(s) - 1) : IsWhitespace(s[i]) /\ IsWhitespace(s[i + 1])

HasChar(s, C) == \E i \in 1..Len(s) : s[i] \in C

ZeroCounts == [emDash |-> 0, curlyQuotes |-> 0, ellipsis |-> 0,
               invisibleChars |-> 0, accents |-> 0, spaces |-> 0]

-----------------------------------------------------------------------------
(* The transform, one step per category, in the order of the code.         *)

\* the count taken from the occurrences of the replacement in the result
DashStepCountsOutput(st, r) ==
    IF st.settings.fixEmDash /\ HasChar(st.fixedText, DashChars)
    THEN [st EXCEPT !.fixCounts.emDash =
                        CountIn(ReplaceIn(st.fixedText, DashChars, r),
                                {r[i] : i \in 1..Len(r)}),
                    !.fixedText = ReplaceIn(st.fixedText, DashChars, r)]
    ELSE st

DashStep(st, r) ==
    IF st.settings.fixEmDash /\ HasChar(st.fixedText, DashChars)
    THEN [st EXCEPT !.fixCounts.emDash = CountIn(st.fixedText, DashChars),
                    !.fixedText = ReplaceIn(st.fixedText, DashChars, r)]
    ELSE st

QuoteStep(st) ==
    IF st.settings.fixCurlyQuotes /\ HasChar(st.fixedText, CurlyQuoteChars)
    THEN [st EXCEPT !.fixCounts.curlyQuotes = CountIn(st.fixedText, CurlyQuoteChars),
                    !.fixedText = ReplaceIn(ReplaceIn(st.fixedText, CurlyDoubleChars, <<"dq">>),
                                            CurlySingleChars, <<"sq">>)]
    ELSE st

EllipsisStep(st) ==
    IF st.settings.fixEllipsis /\ HasChar(st.fixedText, EllipsisChars)
    THEN [st EXCEPT !.fixCounts.ellipsis = CountIn(st.fixedText, EllipsisChars),
                    !.fixedText = ReplaceIn(st.fixedText, EllipsisChars, <<"dot", "dot", "dot">>)]
    ELSE st

InvisibleStep(st) ==
    IF st.settings.fixInvisibleChars /\ HasChar(st.fixedText, InvisibleChars)
    THEN [st EXCEPT !.fixCounts.invisibleChars = CountIn(st.fixedText, InvisibleChars),
                    !.fixedText = ReplaceIn(st.fixedText, InvisibleChars, <<"sp">>)]
    ELSE st

\* every character of the range counted
AccentStepCountsRange(st) ==
    IF st.settings.fixAccents
    THEN [st EXCEPT !.fixCounts.accents = CountIn(st.fixedText, AccentRangeChars),
                    !.fixedText = MapAccents(st.fixedText)]
    ELSE st

AccentStep(st) ==
    IF st.settings.fixAccents
    THEN [st EXCEPT !.fixCounts.accents = CountIn(st.fixedText, AccentMapChars),
                    !.fixedText = MapAccents(st.fixedText)]
    ELSE st

\* the step run whatever settings.fixSpaces is
SpaceStepUnguarded(st) ==
    LET afterSpaces == Trim(CollapseSpaces(st.fixedText)) IN
    IF SpaceRuns(st.fixedText) > 0 /\ afterSpaces # Trim(st.fixedText)
    THEN [st EXCEPT !.fixCounts.spaces = SpaceRuns(st.fixedText),
                    !.fixedText = afterSpaces]
    ELSE st

\* the result compared with the text as it is, not with its trimmed form
SpaceStepComparesInput(st) ==
    LET afterSpaces == Trim(CollapseSpaces(st.fixedText)) IN
    IF st.settings.fixSpaces /\ SpaceRuns(st.fixedText) > 0
       /\ afterSpaces # st.fixedText
    THEN [st EXCEPT !.fixCounts.spaces = SpaceRuns(st.fixedText),
                    !.fixedText = afterSpaces]
    ELSE st

SpaceStep(st) ==
    LET afterSpaces == Trim(CollapseSpaces(st.fixedText)) IN
    IF st.settings.fixSpaces /\ SpaceRuns(st.fixedText) > 0
       /\ afterSpaces # Trim(st.fixedText)
    THEN [st EXCEPT !.fixCounts.spaces = SpaceRuns(st.fixedText),
                    !.fixedText = afterSpaces]
    ELSE st

\* the text and the counts the accent step receives
BeforeAccents(s, t) ==
    InvisibleStep(EllipsisStep(QuoteStep(DashStep(
        [settings |-> s, fixedText |-> t, fixCounts |-> ZeroCounts], s.replacer))))

applyTextFixes(s, t) ==
    LET st6 == SpaceStep(AccentStep(BeforeAccents(s, t)))
    IN [fixedText |-> st6.fixedText, fixCounts |-> st6.fixCounts]

needsProcessing(s, t) ==
    IF t = <<>> THEN FALSE
    ELSE \/ s.fixEmDash /\ HasChar(t, DashChars)
         \/ s.fixCurlyQuotes /\ HasChar(t, CurlyQuoteChars)
         \/ s.fixEllipsis /\ HasChar(t, EllipsisChars)
         \/ s.fixInvisibleChars /\ HasChar(t, InvisibleChars)
         \/ s.fixAccents /\ HasChar(t, AccentRangeChars)
         \/ s.fixSpaces /\ HasSpaceRun(t)

containsTargetText(s, t) == needsProcessing(s, t)

TotalFixes(fc) == fc.emDash + fc.curlyQuotes + fc.ellipsis
                  + fc.invisibleChars + fc.accents + fc.spaces

-----------------------------------------------------------------------------
(* JavaScript values that may be undefined: <<>> is undefined, <<v>> is v. *)

Undefined == <<>>
Some(v) == <<v>>
IsDefined(o) == o # <<>>
Val(o) == o[1]

\* data.replacer || "-"  (undefined and the empty string are falsy)
LoadReplacer(o) == IF IsDefined(o) /\ Val(o) # <<>> THEN Val(o) ELSE <<"hy">>

\* data.flag !== false
NotFalse(o) == IF IsDefined(o) THEN Val(o) ELSE TRUE

\* data.flag === true
IsTrue(o) == IF IsDefined(o) THEN Val(o) ELSE FALSE

\* the object loadSettings assigns to this.settings
LoadSettings(data) ==
    [replacer          |-> LoadReplacer(data.replacer),
     history           |-> IF IsDefined(data.history) THEN Val(data.history) ELSE <<>>,
     totalReplacements |-> IF IsDefined(data.totalReplacements)
                           THEN Val(data.totalReplacements) ELSE 0,
     fixEmDash         |-> NotFalse(data.fixEmDash),
     fixCurlyQuotes    |-> NotFalse(data.fixCurlyQuotes),
     fixEllipsis       |-> NotFalse(data.fixEllipsis),
     fixInvisibleChars |-> NotFalse(data.fixInvisibleChars),
     fixAccents        |-> IsTrue(data.fixAccents),
     fixSpaces         |-> NotFalse(data.fixSpaces)]

-----------------------------------------------------------------------------
(* The document: two text nodes under document.body, in document order.    *)

Nodes == {"n1", "n2"}
DocOrder == <<"n1", "n2">>

\* node.parentElement as acceptNode looks at it: its tagName, its
\* isContentEditable, and whether closest('[contenteditable="true"]')
\* finds an element.
Plain == [tagName |-> "DIV", isContentEditable |-> FALSE, closestEditable |-> FALSE]
ParentChoices ==
    {Plain,
     [tagName |-> "SCRIPT", isContentEditable |-> FALSE, closestEditable |-> FALSE],
     [tagName |-> "STYLE", isContentEditable |-> FALSE, closestEditable |-> FALSE],
     [tagName |-> "NOSCRIPT", isContentEditable |-> FALSE, closestEditable |-> FALSE],
     [tagName |-> "DIV", isContentEditable |-> TRUE, closestEditable |-> TRUE],
     [tagName |-> "DIV", isContentEditable |-> TRUE, closestEditable |-> FALSE],
     [tagName |-> "DIV", isContentEditable |-> FALSE, closestEditable |-> TRUE]}

\* the texts the host gives to a node
DocTexts == {<<"a">>, <<"em">>, <<"times">>}

\* the instants at which something happens (values of Date.now())
Instants == {1000, 1050, 1500}

\* the last instant; a timer due after it does not fire
Horizon == CHOOSE t \in Instants : \A u \in Instants : u <= t

ScanThrottle == 100
HistoryLimit == 100
TimerDelays == {500, 1500, 3000}

\* the skip condition with the NOSCRIPT test left out
IsExcludedParentNoNoscript(p) ==
    \/ p.tagName = "SCRIPT"
    \/ p.tagName = "STYLE"
    \/ p.isContentEditable
    \/ p.closestEditable

\* the skip condition of acceptNode on the parent element
IsExcludedParent(p) ==
    \/ p.tagName = "SCRIPT"
    \/ p.tagName = "STYLE"
    \/ p.tagName = "NOSCRIPT"
    \/ p.isContentEditable
    \/ p.closestEditable

\* acceptNode with the processedNodes test left out
AcceptNodeNoMemo(proc, s, txt, par, n) ==
    IF ~needsProcessing(s, txt[n]) THEN FALSE
    ELSE IF IsExcludedParent(par[n]) THEN FALSE
    ELSE TRUE

\* acceptNode: FILTER_ACCEPT (TRUE) or FILTER_SKIP (FALSE)
AcceptNode(proc, s, txt, par, n) ==
    IF n \in proc THEN FALSE
    ELSE IF ~needsProcessing(s, txt[n]) THEN FALSE
    ELSE IF IsExcludedParent(par[n]) THEN FALSE
    ELSE TRUE

\* the loop body with the test (original !== fixedText) left out
WritesNodeAlways(s, txt, n) == TRUE

\* the body of the while loop of replaceInRoot for one accepted node:
\* does the loop write the node
WritesNode(s, txt, n) == applyTextFixes(s, txt[n]).fixedText # txt[n]

HistoryEntry(s, txt, n, t) ==
    LET r == applyTextFixes(s, txt[n]) IN
    [before |-> txt[n], after |-> r.fixedText, timestamp |-> t,
     fixCounts |-> r.fixCounts, totalFixes |-> TotalFixes(r.fixCounts)]

RECURSIVE SumTotalFixes(_)
SumTotalFixes(h) ==
    IF h = <<>> THEN 0 ELSE Head(h).totalFixes + SumTotalFixes(Tail(h))

\* the nodes written are left out of the set
MarkProcessedNever(proc, wrote) == proc

\* this.processedNodes.add(node) for each node written
MarkProcessed(proc, wrote) == proc \cup wrote

\* the trees a node can be in
Places == {"body", "shadow", "nested"}

\* findShadowRoots(): the shadowRoot of the elements that
\* document.querySelectorAll('*') returns, which are the elements of the
\* document tree and not those inside a shadow tree
findShadowRoots == {"shadow"}

\* the roots performScan hands to replaceInRoot: document.body, then the
\* roots of findShadowRoots()
ScannedRoots == {"body"} \cup findShadowRoots

\* position of a node in the order of the scan
ScanIndex(n) == CHOOSE i \in 1..Len(DocOrder) : DocOrder[i] = n

\* the first failing write ends the loop
WrittenUntilFailure(tried, bad) ==
    {n \in tried : \A m \in tried \cap bad : ScanIndex(n) < ScanIndex(m)}

\* the writes that succeed: a throwing write is caught inside the loop,
\* which goes on with the next node
Written(tried, bad) == tried \ bad

\* the nodes the walk reaches: an exception thrown while the walker visits
\* a node leaves replaceInRoot and the loop over the roots
Visited(bad) ==
    {n \in Nodes : /\ where[n] \in ScannedRoots
                   /\ \A m \in bad : where[m] \in ScannedRoots => ScanIndex(n) < ScanIndex(m)}

\* replaceInRoot(root, localHistory) for the roots of ScannedRoots: the
\* nodes handed to the transform, the nodes whose write threw, the nodes
\* written, the new texts, the new ProcessedSet, the entries pushed and
\* the value returned
ReplaceInRoot(proc, s, txt, par, t) ==
    LET accepted == {n \in Visited(throwing) : AcceptNode(proc, s, txt, par, n)}
        tried == {n \in accepted : WritesNode(s, txt, n)}
        wrote == Written(tried, broken)
        order == SelectSeq(DocOrder, LAMBDA n : n \in wrote)
        entries == [i \in 1..Len(order) |-> HistoryEntry(s, txt, order[i], t)]
    IN [accepted |-> accepted,
        threw |-> (\E m \in throwing : where[m] \in ScannedRoots),
        failed |-> tried \cap broken,
        wrote |-> wrote,
        logged |-> wrote,
        text |-> [n \in Nodes |-> IF n \in wrote
                                   THEN applyTextFixes(s, txt[n]).fixedText
                                   ELSE txt[n]],
        processedNodes |-> MarkProcessed(proc, wrote),
        localHistory |-> entries,
        totalReplacements |-> SumTotalFixes(entries)]

-----------------------------------------------------------------------------
(* chrome.storage.sync and the statistics merge.                           *)

Categories == {"emDash", "curlyQuotes", "ellipsis", "invisibleChars",
               "accents", "spaces"}

\* a property of the stored fixStats object: missing, null or a number
Missing == [kind |-> "undefined", n |-> 0]
Null == [kind |-> "null", n |-> 0]
Num(k) == [kind |-> "number", n |-> k]

\* what the store keeps of (v += k): undefined + k is NaN, which the
\* store's JSON serialisation keeps as null; null + k is k
PlusAssign(v, k) ==
    IF v.kind = "undefined" THEN Null
    ELSE IF v.kind = "null" THEN Num(k)
    ELSE Num(v.n + k)

EmptyObject == [c \in Categories |-> Missing]
ZeroFixStats == [c \in Categories |-> Num(0)]

\* localHistory.forEach(entry => currentFixStats.c += entry.fixCounts.c || 0)
RECURSIVE AddFixCounts(_, _)
AddFixCounts(fs, h) ==
    IF h = <<>> THEN fs
    ELSE AddFixCounts([c \in Categories |-> PlusAssign(fs[c], Head(h).fixCounts[c])],
                      Tail(h))

\* array.slice(-HistoryLimit)
SliceLast(h, k) == IF Len(h) <= k THEN h ELSE SubSeq(h, Len(h) - k + 1, Len(h))

\* the local entries put in front of the history that was read
MergedDataPrepends(currentData, localHistory, count) ==
    LET newHistory == localHistory \o (IF IsDefined(currentData.history)
                                        THEN Val(currentData.history) ELSE <<>>)
        newTotal == (IF IsDefined(currentData.totalReplacements)
                     THEN Val(currentData.totalReplacements) ELSE 0) + count
        currentFixStats == IF IsDefined(currentData.fixStats)
                           THEN Val(currentData.fixStats) ELSE ZeroFixStats
    IN [history |-> SliceLast(newHistory, HistoryLimit),
        totalReplacements |-> newTotal,
        fixStats |-> AddFixCounts(currentFixStats, localHistory)]

\* the object updateStorageWithResults hands to storage.set, computed
\* from the data its storage.get delivered
MergedData(currentData, localHistory, count) ==
    LET newHistory == (IF IsDefined(currentData.history)
                       THEN Val(currentData.history) ELSE <<>>) \o localHistory
        newTotal == (IF IsDefined(currentData.totalReplacements)
                     THEN Val(currentData.totalReplacements) ELSE 0) + count
        currentFixStats == IF IsDefined(currentData.fixStats)
                           THEN Val(currentData.fixStats) ELSE ZeroFixStats
    IN [history |-> SliceLast(newHistory, HistoryLimit),
        totalReplacements |-> newTotal,
        fixStats |-> AddFixCounts(currentFixStats, localHistory)]

\* the keys written by setDefaultSettings at installation; no throttle
\* interval is among them
InstallDefaults ==
    [scanThrottle |-> Undefined,
     replacer |-> Some(<<"hy">>),
     history |-> Some(<<>>),
     totalReplacements |-> Some(0),
     fixEmDash |-> Some(TRUE),
     fixCurlyQuotes |-> Some(TRUE),
     fixEllipsis |-> Some(TRUE),
     fixInvisibleChars |-> Some(TRUE),
     fixAccents |-> Some(FALSE),
     fixSpaces |-> Some(TRUE),
     fixStats |-> Some(EmptyObject)]

\* a store that earlier sessions have filled: HistoryLimit - 1 entries
OldEntry(i) ==
    [before |-> <<"em">>, after |-> <<"hy">>, timestamp |-> i,
     fixCounts |-> [ZeroCounts EXCEPT !.emDash = 1], totalFixes |-> 1]
UsedStore ==
    [InstallDefaults EXCEPT
        !.history = Some([i \in 1..(HistoryLimit - 1) |-> OldEntry(i)]),
        !.totalReplacements = Some(HistoryLimit - 1),
        !.fixStats = Some([ZeroFixStats EXCEPT !["emDash"] = Num(HistoryLimit - 1)])]

\* the settings the popup saves (saveSettings)
PopupChoices ==
    {[fixAccents |-> TRUE, replacer |-> <<"hy">>],
     [fixAccents |-> FALSE, replacer |-> <<"em", "hy">>]}

-----------------------------------------------------------------------------
(* performScan, as the part of a step that runs it.                        *)

NoScan == [accepted |-> {}, threw |-> FALSE, failed |-> {}, wrote |-> {},
           logged |-> {}, clean |-> FALSE]

\* a failure of the given kind, happening now
Fault(kind) == [kind |-> kind, scans |-> scans, time |-> now]

NewMerge(localHistory, count) ==
    [phase |-> "get", scan |-> scans + 1,
     localHistory |-> localHistory, count |-> count,
     data |-> [history |-> <<>>, totalReplacements |-> 0, fixStats |-> ZeroFixStats]]

\* observer.observe(document.body, {subtree: true, ...}) reports the
\* nodes of the document tree; a shadow tree is not part of it
Observed(n) == where[n] = "body"

\* the mutation records the observer queues for the writes of a scan
WriteRecords(obs, wrote) ==
    IF obs
    THEN {[type |-> "characterData", node |-> n] : n \in {m \in wrote : Observed(m)}}
    ELSE {}

\* a batch or a request may start a scan; the scans of the timers of
\* performInitialScan are at most three
ScanBudget == isActive => scans < MaxScans

\* performScan() called with this.settings = s
PerformScan(s) ==
    IF ~isActive
    THEN /\ pendingMut' = {}
         /\ docChanged' = (docChanged \/ s # settings)
         /\ UNCHANGED <<text, processedNodes, replacementCount, merges>>
         /\ UNCHANGED <<writes, scans, lastScan, lastStart, allEntries, faults>>
    ELSE \E r \in {ReplaceInRoot(processedNodes, s, text, parent, now)} :
         /\ text' = r.text
         /\ processedNodes' = r.processedNodes
         /\ pendingMut' = WriteRecords(observer, r.wrote)
         /\ IF ~r.threw /\ r.totalReplacements > 0
            THEN /\ replacementCount' = replacementCount + r.totalReplacements
                 /\ merges' = Append(merges, NewMerge(r.localHistory, r.totalReplacements))
                 /\ allEntries' = allEntries \o r.localHistory
            ELSE UNCHANGED <<replacementCount, merges, allEntries>>
         /\ writes' = [n \in Nodes |-> writes[n] + (IF n \in r.wrote THEN 1 ELSE 0)]
         /\ scans' = scans + 1
         /\ lastScan' = [accepted |-> r.accepted, threw |-> r.threw,
                         failed |-> r.failed,
                         wrote |-> r.wrote, logged |-> r.logged,
                         clean |-> (scans > 0 /\ ~docChanged /\ s = settings)]
         /\ lastStart' = Some(now)
         /\ docChanged' = FALSE
         /\ faults' = faults \cup (IF r.failed # {} THEN {Fault("write")} ELSE {})
                             \cup (IF r.threw THEN {Fault("scan")} ELSE {})

-----------------------------------------------------------------------------
(* init(), the timers of performInitialScan, destroy().                    *)

\* storage.get of loadSettings delivers while init() awaits it: the rest
\* of init() runs (setupMessageListener, startObserver,
\* performInitialScan up to its await, isActive = true)
InitLoaded ==
    /\ initPc = "loading"
    /\ pendingMut = {}
    /\ settings' = LoadSettings(store)
    /\ observer' = TRUE
    /\ isActive' = TRUE
    /\ IF pageLoaded
       THEN /\ initPc' = "done"
            /\ timers' = {now + d : d \in TimerDelays}
       ELSE /\ initPc' = "waitPage"
            /\ timers' = timers
    /\ UNCHANGED <<tlVars, busVars, envVars, docVars, store, replacementCount, processedNodes,
                   lastScanTime, pendingMut, pendingLoads, merges, obsVars>>

\* the load event resolves waitForPageLoad but no timer is set
PageLoadSetsNoTimer ==
    /\ ~pageLoaded
    /\ pendingMut = {}
    /\ pageLoaded' = TRUE
    /\ IF initPc = "waitPage"
       THEN /\ initPc' = "done"
            /\ timers' = {}
       ELSE UNCHANGED <<initPc, timers>>
    /\ UNCHANGED <<tlVars, busVars, envVars, text, parent, now, store, engVars, pendingMut,
                   pendingLoads, merges, obsVars>>

\* the load event: waitForPageLoad resolves and the three timers are set
PageLoad ==
    /\ ~pageLoaded
    /\ pendingMut = {}
    /\ pageLoaded' = TRUE
    /\ IF initPc = "waitPage"
       THEN /\ initPc' = "done"
            /\ timers' = {now + d : d \in TimerDelays}
       ELSE UNCHANGED <<initPc, timers>>
    /\ UNCHANGED <<tlVars, busVars, envVars, text, parent, now, store, engVars, pendingMut,
                   pendingLoads, merges, obsVars>>

\* a callback set with setInterval: it stays due
TimerFireRepeats ==
    /\ timers # {}
    /\ pendingMut = {}
    /\ LET t == CHOOSE x \in timers : \A y \in timers : x <= y IN
       /\ now >= t
       /\ timers' = timers
    /\ PerformScan(settings)
    /\ UNCHANGED <<tlVars, busVars, envVars, parent, pageLoaded, now, store, isActive, observer,
                   settings, lastScanTime, initPc, pendingLoads,
                   epoch, lastBatchScan, lastBatch, hostOps>>

\* a setTimeout callback of performInitialScan: performScan()
TimerFire ==
    /\ timers # {}
    /\ pendingMut = {}
    /\ LET t == CHOOSE x \in timers : \A y \in timers : x <= y IN
       /\ now >= t
       /\ timers' = timers \ {t}
    /\ PerformScan(settings)
    /\ UNCHANGED <<tlVars, busVars, envVars, parent, pageLoaded, now, store, isActive, observer,
                   settings, lastScanTime, initPc, pendingLoads,
                   epoch, lastBatchScan, lastBatch, hostOps>>

\* destroy()
Destroy ==
    /\ hostOps < MaxHostOps
    /\ pendingMut = {}
    /\ isActive' = FALSE
    /\ observer' = FALSE
    /\ processedNodes' = {}
    /\ epoch' = epoch + 1
    /\ writes' = [n \in Nodes |-> 0]
    /\ hostOps' = hostOps + 1
    /\ UNCHANGED <<tlVars, busVars, envVars, docVars, store, settings, replacementCount,
                   lastScanTime, ctlVars, scans, lastScan, lastStart,
                   docChanged, lastBatchScan, lastBatch, allEntries, faults>>

-----------------------------------------------------------------------------
(* The host page and the mutation observer.                                *)

\* the page sets the data of a text node
HostSetText(n, t) ==
    /\ hostOps < MaxHostOps
    /\ initPc # "loading"
    /\ pendingMut = {}
    /\ n = "n2"
    /\ t # text[n]
    /\ text' = [text EXCEPT ![n] = t]
    /\ pendingMut' = IF observer /\ Observed(n)
                     THEN {[type |-> "characterData", node |-> n]} ELSE {}
    /\ docChanged' = TRUE
    /\ hostOps' = hostOps + 1
    /\ UNCHANGED <<tlVars, busVars, envVars, parent, pageLoaded, now, store, engVars, initPc,
                   timers, pendingLoads, merges, epoch, writes, scans, lastScan,
                   lastStart, lastBatchScan, lastBatch, allEntries, faults>>

\* the page inserts a text node under another element
HostMove(n, p) ==
    /\ hostOps < MaxHostOps
    /\ initPc # "loading"
    /\ pendingMut = {}
    /\ n = "n2"
    /\ p # parent[n]
    /\ Plain \in {p, parent[n]}
    /\ parent' = [parent EXCEPT ![n] = p]
    /\ pendingMut' = IF observer /\ Observed(n)
                     THEN {[type |-> "childList", node |-> n]} ELSE {}
    /\ docChanged' = TRUE
    /\ hostOps' = hostOps + 1
    /\ UNCHANGED <<tlVars, busVars, envVars, text, pageLoaded, now, store, engVars, initPc,
                   timers, pendingLoads, merges, epoch, writes, scans, lastScan,
                   lastStart, lastBatchScan, lastBatch, allEntries, faults>>

\* the loop of handleMutations: does some record of the batch name a node
\* whose text passes the pre-check
ShouldScan(s, txt, batch) ==
    \E m \in batch :
        \/ m.type = "childList" /\ containsTargetText(s, txt[m.node])
        \/ m.type = "characterData" /\ containsTargetText(s, txt[m.node])

\* the throttle test left out
ThrottledNever(t, last) == FALSE

\* the throttle test of handleMutations
Throttled(t, last) == t - last < ScanThrottle

\* the observer callback: handleMutations(mutations)
HandleMutations ==
    /\ pendingMut # {}
    /\ IF Throttled(now, lastScanTime)
       THEN /\ pendingMut' = {}
            /\ lastBatch' = Some([time |-> now, outcome |-> "dropped"])
            /\ UNCHANGED <<text, processedNodes, replacementCount, merges,
                           lastScanTime, writes, scans, lastScan, lastStart,
                           docChanged, lastBatchScan, allEntries, faults>>
       ELSE /\ lastScanTime' = now
            /\ IF ShouldScan(settings, text, pendingMut)
               THEN /\ ScanBudget
                    /\ PerformScan(settings)
                    /\ lastBatchScan' = IF isActive THEN Some(now) ELSE lastBatchScan
                    /\ lastBatch' = Some([time |-> now,
                                          outcome |-> IF isActive THEN "scanned"
                                                      ELSE "idle"])
               ELSE /\ pendingMut' = {}
                    /\ lastBatch' = Some([time |-> now, outcome |-> "idle"])
                    /\ UNCHANGED <<text, processedNodes, replacementCount,
                                   merges, writes, scans, lastScan, lastStart,
                                   docChanged, lastBatchScan, allEntries,
                                   faults>>
    /\ UNCHANGED <<tlVars, busVars, envVars, parent, pageLoaded, now, store, isActive, observer,
                   settings, initPc, timers, pendingLoads, epoch, hostOps>>

\* time passes; a request to the store is answered before the next instant
Advance(t) ==
    /\ pendingMut = {}
    /\ initPc # "loading"
    /\ merges = <<>>
    /\ pendingLoads = 0
    /\ t > now
    /\ now' = t
    /\ UNCHANGED <<tlVars, busVars, envVars, text, parent, pageLoaded, store, engVars, ctlVars,
                   obsVars>>

-----------------------------------------------------------------------------
(* The message listener and the popup.                                     *)

\* the listener exists once setupMessageListener has run
Listening == initPc \in {"waitPage", "done"}

NoProbe == [n |-> 0, to |-> "none", action |-> "none"]

\* sendResponse(...) of a listener: success, error and replacements as
\* in the object sent, started the number of scans started by then
Response(action, success, error, replacements, started) ==
    [kind |-> "response", action |-> action, success |-> success,
     error |-> error, replacements |-> replacements, scans |-> started]

\* localHistory.map(entry => entry.after).join('\n')
RECURSIVE JoinAfter(_)
JoinAfter(h) ==
    IF h = <<>> THEN <<>>
    ELSE IF Len(h) = 1 THEN Head(h).after
    ELSE Head(h).after \o <<"nl">> \o JoinAfter(Tail(h))

\* the updateStats message of the merge m
StatsMessage(m) ==
    [kind |-> "updateStats", count |-> m.count,
     processedText |-> JoinAfter(m.localHistory),
     fixStats |-> m.data.fixStats, scan |-> m.scan]

\* the message null: reading its action throws a TypeError
NullMessage == "null"

\* the requests that start no scan and no load, by their action
ProbeActions == {"ping", "updateStats", "bogus", NullMessage}

\* what the listener of the content script answers to action a: the
\* switch is inside a try whose catch answers with the error
OnMessage(a) ==
    IF a = "ping"
    THEN <<[kind |-> "response", action |-> a, success |-> TRUE,
            error |-> Undefined, isActive |-> isActive,
            replacementCount |-> replacementCount]>>
    ELSE IF a = NullMessage
    THEN <<Response(a, FALSE, Some("error.message"), Undefined, scans)>>
    ELSE <<Response(a, FALSE, Some("Unknown action: " \o a), Undefined, scans)>>

\* a message with action a for the tab: the listener of the content
\* script answers it if setupMessageListener has run
Probe(a) ==
    /\ hostOps < MaxHostOps
    /\ pendingMut = {}
    /\ probe' = [n |-> probe.n + 1, to |-> "content", action |-> a]
    /\ sent' = IF Listening THEN OnMessage(a) ELSE <<>>
    /\ hostOps' = hostOps + 1
    /\ UNCHANGED <<tlVars, docVars, envVars, store, engVars, ctlVars, epoch,
                   writes, scans, lastScan, lastStart, docChanged,
                   lastBatchScan, lastBatch, allEntries, faults>>

\* what handleMessage of the background service answers to action a: the
\* switch is in no try, so the TypeError of a null message leaves the
\* listener before any sendResponse
handleMessage(a) ==
    IF a \in {"updateStats", "logError"}
    THEN <<Response(a, TRUE, Undefined, Undefined, scans)>>
    ELSE IF a = NullMessage
    THEN <<>>
    ELSE <<Response(a, FALSE, Some("Unknown action"), Undefined, scans)>>

\* a message with action a for the extension: the listener of the
\* background service, registered by its constructor, answers it
BackgroundProbe(a) ==
    /\ hostOps < MaxHostOps
    /\ pendingMut = {}
    /\ probe' = [n |-> probe.n + 1, to |-> "background", action |-> a]
    /\ sent' = handleMessage(a)
    /\ hostOps' = hostOps + 1
    /\ UNCHANGED <<tlVars, docVars, envVars, store, engVars, ctlVars, epoch,
                   writes, scans, lastScan, lastStart, docChanged,
                   lastBatchScan, lastBatch, allEntries, faults>>

\* message {action: 'testReplace'}: performImmediateScan()
TestReplace ==
    /\ Listening
    /\ pendingMut = {}
    /\ ScanBudget
    /\ PerformScan(settings)
    /\ sent' = <<Response("testReplace", TRUE, Undefined,
                          Some(replacementCount'), scans')>>
    /\ UNCHANGED <<tlVars, probe, envVars, parent, pageLoaded, now, store, isActive, observer,
                   settings, lastScanTime, initPc, timers, pendingLoads,
                   epoch, lastBatchScan, lastBatch, hostOps>>

\* saveSettings of the popup writes the settings keys
PopupSave(c) ==
    /\ hostOps < MaxHostOps
    /\ initPc # "loading"
    /\ pendingMut = {}
    /\ store' = [store EXCEPT !.fixAccents = Some(c.fixAccents),
                              !.replacer = Some(c.replacer)]
    /\ store' # store
    /\ hostOps' = hostOps + 1
    /\ UNCHANGED <<tlVars, busVars, envVars, docVars, engVars, ctlVars, epoch, writes, scans,
                   lastScan, lastStart, docChanged, lastBatchScan, lastBatch,
                   allEntries, faults>>

\* the intervals somebody may store
ThrottleChoices == {20, 1000}

\* somebody stores the throttle interval v and, if the listener of the
\* page exists, sends {action: 'settingsUpdated'}
ThrottleSave(v) ==
    /\ hostOps < MaxHostOps
    /\ pendingMut = {}
    /\ pendingLoads = 0
    /\ scans < MaxScans
    /\ store.scanThrottle # Some(v)
    /\ store' = [store EXCEPT !.scanThrottle = Some(v)]
    /\ pendingLoads' = IF Listening THEN pendingLoads + 1 ELSE pendingLoads
    /\ sent' = <<>>
    /\ hostOps' = hostOps + 1
    /\ UNCHANGED <<tlVars, probe, envVars, docVars, engVars, initPc, timers, pendingMut,
                   merges, epoch, writes, scans, lastScan, lastStart, docChanged,
                   lastBatchScan, lastBatch, allEntries, faults>>

\* message {action: 'settingsUpdated'}: loadSettings() issues storage.get
SettingsUpdated ==
    /\ Listening
    /\ pendingMut = {}
    /\ pendingLoads = 0
    /\ scans < MaxScans
    /\ pendingLoads' = pendingLoads + 1
    /\ sent' = <<>>
    /\ UNCHANGED <<tlVars, probe, envVars, docVars, store, engVars, initPc, timers, pendingMut,
                   merges, obsVars>>

\* that storage.get delivers: this.settings is replaced, then
\* performImmediateScan() runs
SettingsLoaded ==
    /\ pendingLoads > 0
    /\ pendingMut = {}
    /\ pendingLoads' = pendingLoads - 1
    /\ settings' = LoadSettings(store)
    /\ ScanBudget
    /\ PerformScan(LoadSettings(store))
    /\ sent' = <<Response("settingsUpdated", TRUE, Undefined, Undefined, scans')>>
    /\ UNCHANGED <<tlVars, probe, envVars, parent, pageLoaded, now, store, isActive, observer,
                   lastScanTime, initPc, timers, epoch, lastBatchScan, lastBatch, hostOps>>

-----------------------------------------------------------------------------
(* updateStorageWithResults: its storage.get and storage.set callbacks.    *)

\* The store serves the requests of one page in the order they were made.

\* storage.get delivers the current keys; the merged object is computed
\* and handed to storage.set
MergeGet ==
    /\ pendingMut = {}
    /\ merges # <<>>
    /\ Head(merges).phase = "get"
    /\ merges' = Append(Tail(merges),
                        [Head(merges) EXCEPT
                            !.phase = "set",
                            !.data = MergedData(store, Head(merges).localHistory,
                                                Head(merges).count)])
    /\ sent' = <<>>
    /\ UNCHANGED <<tlVars, probe, envVars, docVars, store, engVars, initPc, timers, pendingMut,
                   pendingLoads, obsVars>>

\* storage.set has written the keys and delivers
MergeSet ==
    /\ pendingMut = {}
    /\ merges # <<>>
    /\ Head(merges).phase = "set"
    /\ store' = [store EXCEPT
                    !.history = Some(Head(merges).data.history),
                    !.totalReplacements = Some(Head(merges).data.totalReplacements),
                    !.fixStats = Some(Head(merges).data.fixStats)]
    /\ merges' = Tail(merges)
    /\ sent' = <<StatsMessage(Head(merges))>>
    /\ UNCHANGED <<tlVars, probe, envVars, docVars, engVars, initPc, timers, pendingMut,
                   pendingLoads, obsVars>>

-----------------------------------------------------------------------------
(* Failures of the host and of the store.                                  *)

\* from now on the textContent setter of node n throws
BreakNode(n) ==
    /\ hostOps < MaxHostOps
    /\ pendingMut = {}
    /\ n \notin broken
    /\ broken' = broken \cup {n}
    /\ hostOps' = hostOps + 1
    /\ UNCHANGED <<tlVars, busVars, docVars, where, throwing, store, engVars, ctlVars,
                   epoch, writes, scans, lastScan, lastStart, docChanged,
                   lastBatchScan, lastBatch, allEntries, faults>>

\* from now on the visit of node n by the TreeWalker of a scan throws
BreakWalk(n) ==
    /\ hostOps < MaxHostOps
    /\ pendingMut = {}
    /\ n \notin throwing
    /\ throwing' = throwing \cup {n}
    /\ hostOps' = hostOps + 1
    /\ UNCHANGED <<tlVars, busVars, docVars, where, broken, store, engVars, ctlVars,
                   epoch, writes, scans, lastScan, lastStart, docChanged,
                   lastBatchScan, lastBatch, allEntries, faults>>

\* the storage.get of loadSettings in init() fails. If the call throws,
\* the promise rejects and the catch of init() logs; if the callback gets
\* undefined data, reading data.replacer throws inside the callback and
\* the promise never resolves. Either way the rest of init() never runs.
InitLoadFail ==
    /\ hostOps < MaxHostOps
    /\ initPc = "loading"
    /\ pendingMut = {}
    /\ initPc' = "failed"
    /\ faults' = faults \cup {Fault("load")}
    /\ hostOps' = hostOps + 1
    /\ UNCHANGED <<tlVars, busVars, docVars, envVars, store, engVars, timers,
                   pendingMut, pendingLoads, merges, epoch, writes, scans,
                   lastScan, lastStart, docChanged, lastBatchScan, lastBatch,
                   allEntries>>

\* the storage.get of a settingsUpdated request fails: this.settings is
\* not assigned and performImmediateScan() does not run. If the call
\* throws, the promise rejects and the catch of the listener answers; if
\* the callback gets undefined data, it throws and nothing is answered.
SettingsLoadFail ==
    /\ hostOps < MaxHostOps
    /\ pendingLoads > 0
    /\ pendingMut = {}
    /\ pendingLoads' = pendingLoads - 1
    /\ faults' = faults \cup {Fault("reload")}
    /\ hostOps' = hostOps + 1
    /\ sent' \in {<<>>, <<Response("settingsUpdated", FALSE, Some("error.message"),
                                  Undefined, scans)>>}
    /\ UNCHANGED <<tlVars, probe, docVars, envVars, store, engVars, initPc, timers,
                   pendingMut, merges, epoch, writes, scans, lastScan,
                   lastStart, docChanged, lastBatchScan, lastBatch,
                   allEntries>>

\* a failure stops the engine
ActiveAfterFailureStops(active) == FALSE

\* isActive after a caught failure: the catch blocks of performScan,
\* replaceInRoot and updateStorageWithResults only log
ActiveAfterFailure(active) == active

\* the storage.get of updateStorageWithResults fails: the catch of
\* updateStorageWithResults logs, localHistory and the count are dropped
MergeGetFail ==
    /\ hostOps < MaxHostOps
    /\ pendingMut = {}
    /\ merges # <<>>
    /\ Head(merges).phase = "get"
    /\ merges' = Tail(merges)
    /\ faults' = faults \cup {Fault("mergeGet")}
    /\ hostOps' = hostOps + 1
    /\ isActive' = ActiveAfterFailure(isActive)
    /\ sent' = <<>>
    /\ UNCHANGED <<tlVars, probe, docVars, envVars, store, observer, settings,
                   replacementCount, processedNodes, lastScanTime, initPc,
                   timers, pendingMut, pendingLoads, epoch, writes, scans,
                   lastScan, lastStart, docChanged, lastBatchScan, lastBatch,
                   allEntries>>

\* the storage.set of updateStorageWithResults fails: nothing is written.
\* If the store reports the failure in chrome.runtime.lastError, the
\* callback resolves the promise and the function goes on to send the
\* updateStats message; if the call throws, the catch logs.
MergeSetFail ==
    /\ hostOps < MaxHostOps
    /\ pendingMut = {}
    /\ merges # <<>>
    /\ Head(merges).phase = "set"
    /\ merges' = Tail(merges)
    /\ faults' = faults \cup {Fault("mergeSet")}
    /\ hostOps' = hostOps + 1
    /\ isActive' = ActiveAfterFailure(isActive)
    /\ sent' \in {<<>>, <<StatsMessage(Head(merges))>>}
    /\ UNCHANGED <<tlVars, probe, docVars, envVars, store, observer, settings,
                   replacementCount, processedNodes, lastScanTime, initPc,
                   timers, pendingMut, pendingLoads, epoch, writes, scans,
                   lastScan, lastStart, docChanged, lastBatchScan, lastBatch,
                   allEntries>>

-----------------------------------------------------------------------------
(* The engine: the state after the constructor has called init().          *)

NoResult == [fixedText |-> <<>>, fixCounts |-> ZeroCounts, applied |-> FALSE]

\* this.settings = { replacer: "-", history: [] }: every flag is undefined
ConstructorSettings ==
    [replacer |-> <<"hy">>, history |-> <<>>, totalReplacements |-> 0,
     fixEmDash |-> FALSE, fixCurlyQuotes |-> FALSE, fixEllipsis |-> FALSE,
     fixInvisibleChars |-> FALSE, fixAccents |-> FALSE, fixSpaces |-> FALSE]

TlIdle ==
    /\ tlData = InstallDefaults
    /\ tlSettings = ConstructorSettings
    /\ tlInput = <<>>
    /\ tlOnce = NoResult
    /\ tlTwice = NoResult

EngineInit ==
    /\ text \in {[n \in Nodes |-> IF n = "n2" THEN t ELSE <<"em", "eacute">>] : t \in DocTexts}
    /\ parent = [n \in Nodes |-> Plain]
    /\ pageLoaded = FALSE
    /\ now = 1000
    /\ isActive = FALSE
    /\ observer = FALSE
    /\ settings = ConstructorSettings
    /\ replacementCount = 0
    /\ processedNodes = {}
    /\ lastScanTime = 0
    /\ initPc = "loading"
    /\ timers = {}
    /\ pendingMut = {}
    /\ pendingLoads = 0
    /\ merges = <<>>
    /\ epoch = 0
    /\ writes = [n \in Nodes |-> 0]
    /\ scans = 0
    /\ lastScan = NoScan
    /\ lastStart = Undefined
    /\ docChanged = FALSE
    /\ lastBatchScan = Undefined
    /\ lastBatch = Undefined
    /\ allEntries = <<>>
    /\ hostOps = 0
    /\ faults = {}
    /\ probe = NoProbe
    /\ sent = <<>>

\* every text node is in the document tree and can be written
PlainHost ==
    /\ where = [n \in Nodes |-> "body"]
    /\ broken = {}
    /\ throwing = {}

\* a fresh installation
Init ==
    /\ TlIdle
    /\ store = InstallDefaults
    /\ EngineInit
    /\ PlainHost

\* a store filled by earlier sessions
InitUsed ==
    /\ TlIdle
    /\ store = UsedStore
    /\ EngineInit
    /\ PlainHost

Next ==
    \/ InitLoaded
    \/ PageLoad
    \/ TimerFire
    \/ Destroy
    \/ \E n \in Nodes, t \in DocTexts : HostSetText(n, t)
    \/ \E n \in Nodes, p \in ParentChoices : HostMove(n, p)
    \/ HandleMutations
    \/ \E t \in Instants : Advance(t)
    \/ TestReplace
    \/ \E c \in PopupChoices : PopupSave(c)
    \/ SettingsUpdated
    \/ SettingsLoaded
    \/ MergeGet
    \/ MergeSet

Spec == Init /\ [][Next]_vars

SpecUsed == InitUsed /\ [][Next]_vars

\* the engine on a host and a store that can fail
NextFault ==
    \/ InitLoaded
    \/ PageLoad
    \/ TimerFire
    \/ Destroy
    \/ \E n \in Nodes, t \in DocTexts : HostSetText(n, t)
    \/ \E n \in Nodes, p \in ParentChoices : HostMove(n, p)
    \/ HandleMutations
    \/ \E t \in Instants : Advance(t)
    \/ TestReplace
    \/ \E c \in PopupChoices : PopupSave(c)
    \/ SettingsUpdated
    \/ SettingsLoaded
    \/ MergeGet
    \/ MergeSet
    \/ \E n \in Nodes : BreakNode(n)
    \/ \E n \in Nodes : BreakWalk(n)
    \/ InitLoadFail
    \/ SettingsLoadFail
    \/ MergeGetFail
    \/ MergeSetFail

SpecFault == Init /\ [][NextFault]_vars

\* the engine on a page that changes nothing and sends no request: what
\* the engine does by itself, the popup saving choices, the page closing
NextLive ==
    \/ InitLoaded
    \/ PageLoad
    \/ TimerFire
    \/ Destroy
    \/ HandleMutations
    \/ \E t \in Instants : Advance(t)
    \/ \E c \in PopupChoices : PopupSave(c)
    \/ MergeGet
    \/ MergeSet

\* what the scheduling of the page guarantees: the store answers the get
\* of init(), the load event arrives, time passes and a timer that is due
\* runs its callback. The popup is free to do nothing and the page to
\* stay open.
Fairness ==
    /\ WF_vars(InitLoaded)
    /\ WF_vars(PageLoad)
    /\ WF_vars(\E t \in Instants : Advance(t))
    /\ WF_vars(TimerFire)

SpecLive == Init /\ [][NextLive]_vars /\ Fairness

\* the instants of a clock that runs until the last timer is due
TimerInstants == {1500, 2500, 4000}

\* the engine on a page that changes nothing, over that longer time
NextTimers ==
    \/ InitLoaded
    \/ PageLoad
    \/ TimerFire
    \/ Destroy
    \/ HandleMutations
    \/ \E t \in TimerInstants : Advance(t)
    \/ TestReplace
    \/ \E c \in PopupChoices : PopupSave(c)
    \/ SettingsUpdated
    \/ SettingsLoaded
    \/ MergeGet
    \/ MergeSet

SpecTimers == Init /\ [][NextTimers]_vars

\* the engine on a page that changes its text, with a store whose
\* throttle interval is changed
NextThrottle ==
    \/ InitLoaded
    \/ PageLoad
    \/ TimerFire
    \/ \E n \in Nodes, t \in DocTexts : HostSetText(n, t)
    \/ HandleMutations
    \/ \E t \in Instants : Advance(t)
    \/ \E v \in ThrottleChoices : ThrottleSave(v)
    \/ SettingsLoaded
    \/ MergeGet
    \/ MergeSet

SpecThrottle == Init /\ [][NextThrottle]_vars

\* the texts of a page that also has a line break between two words
PageTexts == DocTexts \cup {<<"a", "nl", "a">>}

\* the engine on a page that sets such texts
NextPage ==
    \/ InitLoaded
    \/ PageLoad
    \/ TimerFire
    \/ \E n \in Nodes, t \in PageTexts : HostSetText(n, t)
    \/ HandleMutations
    \/ \E t \in Instants : Advance(t)
    \/ TestReplace
    \/ MergeGet
    \/ MergeSet

SpecPage == Init /\ [][NextPage]_vars

\* the engine and the background service with any request on the bus
NextBus ==
    \/ InitLoaded
    \/ PageLoad
    \/ TimerFire
    \/ Destroy
    \/ \E n \in Nodes, t \in DocTexts : HostSetText(n, t)
    \/ HandleMutations
    \/ \E t \in Instants : Advance(t)
    \/ TestReplace
    \/ \E c \in PopupChoices : PopupSave(c)
    \/ SettingsUpdated
    \/ SettingsLoaded
    \/ MergeGet
    \/ MergeSet
    \/ \E a \in ProbeActions : Probe(a)
    \/ \E a \in ProbeActions : BackgroundProbe(a)

SpecBus == Init /\ [][NextBus]_vars

\* a page whose second text node is in the document tree, in a shadow
\* tree of the document or in a shadow tree nested in a shadow tree
InitShadow ==
    /\ TlIdle
    /\ store = InstallDefaults
    /\ EngineInit
    /\ where \in {[n \in Nodes |-> IF n = "n2" THEN p ELSE "body"] : p \in Places}
    /\ broken = {}
    /\ throwing = {}

SpecShadow == InitShadow /\ [][Next]_vars

-----------------------------------------------------------------------------
(* The transform on its own: every settings snapshot loadSettings can      *)
(* produce from the stored flags and the stored replacement strings, and   *)
(* every text up to MaxLen characters.                                     *)

TlAlphabet == {"em", "en", "ldq", "ell", "nbsp", "eacute", "times", "sp", "a"}

TlTexts == UNION {[1..k -> TlAlphabet] : k \in 0..MaxLen}

\* a longer text: a quoted word, a word, an ellipsis, three spaces, a word
Example2Input ==
    <<"ldq", "Q", "u", "o", "t", "e", "d", "rdq", "sp", "t", "e", "x", "t",
      "ell", "sp", "sp", "sp", "h", "e", "r", "e">>

\* "Hello", U+2014, "world"
Example1Input == <<"H", "e", "l", "l", "o", "em", "w", "o", "r", "l", "d">>

\* "caf", U+00E9
Example3Input == <<"c", "a", "f", "eacute">>

TlInputs == TlTexts \cup {Example1Input, Example2Input, Example3Input}

TlStoredReplacers == {Undefined, Some(<<>>), Some(<<"hy">>), Some(<<"em", "hy">>)}

TlStored ==
    {[InstallDefaults EXCEPT !.replacer = r,
                             !.fixEmDash = Some(f1), !.fixCurlyQuotes = Some(f2),
                             !.fixEllipsis = Some(f3), !.fixInvisibleChars = Some(f4),
                             !.fixAccents = Some(f5), !.fixSpaces = Some(f6)] :
        r \in TlStoredReplacers, f1 \in BOOLEAN, f2 \in BOOLEAN, f3 \in BOOLEAN,
        f4 \in BOOLEAN, f5 \in BOOLEAN, f6 \in BOOLEAN}

TlSettingsSet == {LoadSettings(d) : d \in TlStored}

Applied(r) == [fixedText |-> r.fixedText, fixCounts |-> r.fixCounts, applied |-> TRUE]

InitPure ==
    /\ tlData \in TlStored
    /\ tlSettings = LoadSettings(tlData)
    /\ tlInput \in TlInputs
    /\ tlOnce = NoResult
    /\ tlTwice = NoResult
    /\ store = InstallDefaults
    /\ EngineInit
    /\ PlainHost
    /\ text["n2"] = <<"a">>

\* applyTextFixes(text)
TlApply ==
    /\ ~tlOnce.applied
    /\ tlOnce' = Applied(applyTextFixes(tlSettings, tlInput))
    /\ UNCHANGED <<busVars, tlData, tlSettings, tlInput, tlTwice, docVars, envVars, store, engVars,
                   ctlVars, obsVars>>

\* applyTextFixes applied to the text it returned
TlApplyAgain ==
    /\ tlOnce.applied
    /\ ~tlTwice.applied
    /\ tlTwice' = Applied(applyTextFixes(tlSettings, tlOnce.fixedText))
    /\ UNCHANGED <<busVars, tlData, tlSettings, tlInput, tlOnce, docVars, envVars, store, engVars,
                   ctlVars, obsVars>>

NextPure == TlApply \/ TlApplyAgain

SpecPure == InitPure /\ [][NextPure]_vars

-----------------------------------------------------------------------------
\* C2: applying the transform to its own output returns that output
\* again, for every settings snapshot and every input text.
C2_Idempotent == tlTwice.applied => tlTwice.fixedText = tlOnce.fixedText

-----------------------------------------------------------------------------
(* Properties of the engine.                                               *)

\* the containers the scan must leave alone
InExcludedRegion(n) ==
    \/ parent[n].tagName \in {"SCRIPT", "STYLE", "NOSCRIPT"}
    \/ parent[n].isContentEditable
    \/ parent[n].closestEditable

\* the text of n is one the transform changes under settings s
Transformable(s, n) == applyTextFixes(s, text[n]).fixedText # text[n]

ScanStep == scans' = scans + 1
HostStep == hostOps' # hostOps
BatchStep == pendingMut # {}
ReloadStep == pendingLoads' < pendingLoads

\* C1: when the storage.get of a settings-changed request delivers, every
\* node of the ProcessedSet that is outside the excluded regions and whose
\* text the transform changes under the re-read settings leaves the set
\* as rewritten by the scan of that step (the set was emptied first).
C1_ReloadReset ==
    [][(ReloadStep /\ isActive) =>
          \A n \in processedNodes :
              (~InExcludedRegion(n) /\ Transformable(settings', n)) =>
                  text'[n] = applyTextFixes(settings', text[n]).fixedText]_vars

\* C3: once every merge the scans started has completed, the persisted
\* totalReplacements is its initial value plus the counts of all scans and
\* the persisted history is the last HistoryLimit entries of the initial
\* history followed by the entries of all scans.
C3_MergesAtomic ==
    merges = <<>> =>
        /\ Val(store.totalReplacements)
              = Val(InstallDefaults.totalReplacements) + replacementCount
        /\ Val(store.history)
              = SliceLast(Val(InstallDefaults.history) \o allEntries, HistoryLimit)

\* C4: no step makes the persisted totalReplacements or a persisted
\* numeric category counter smaller.
C4_StatsMonotone ==
    [][/\ Val(store'.totalReplacements) >= Val(store.totalReplacements)
       /\ \A c \in Categories :
             (Val(store.fixStats)[c].kind = "number"
              /\ Val(store'.fixStats)[c].kind = "number")
                 => Val(store'.fixStats)[c].n >= Val(store.fixStats)[c].n]_vars

\* C5: a scan never hands a node of the ProcessedSet to the transform and
\* never rewrites it, and no node is written twice between two resets.
C5_ProcessedOnce ==
    /\ [][ScanStep =>
             \A n \in processedNodes :
                 /\ n \notin lastScan'.accepted
                 /\ n \notin lastScan'.wrote
                 /\ text'[n] = text[n]]_vars
    /\ [](\A n \in Nodes : writes[n] <= 1)

\* a node of the ProcessedSet holds transformable text again, and a scan
\* has run since the page put it there
C5_Witness ==
    /\ scans >= 2
    /\ ~docChanged
    /\ \E n \in processedNodes :
          /\ ~InExcludedRegion(n)
          /\ needsProcessing(settings, text[n])
          /\ Transformable(settings, n)

\* C6: a scan that follows another scan with no change of the document
\* and none of the settings in between writes no node, pushes no entry,
\* adds nothing to the replacement count and starts no merge.
C6_Memoization ==
    [][(ScanStep /\ scans > 0 /\ ~docChanged /\ settings' = settings) =>
          /\ text' = text
          /\ lastScan'.wrote = {}
          /\ lastScan'.logged = {}
          /\ allEntries' = allEntries
          /\ replacementCount' = replacementCount
          /\ merges' = merges]_vars

\* the second of two such scans has run over a node that the first one
\* wrote and that the transform would change again
C6_Witness ==
    /\ lastScan.clean
    /\ \E n \in processedNodes :
           /\ ~InExcludedRegion(n)
           /\ needsProcessing(settings, text[n])
           /\ WritesNode(settings, text, n)

\* C7: a batch that arrives inside the throttle window starts no scan and
\* changes nothing, and a batch that starts a scan arrives at least
\* ScanThrottle after the previous batch that started one.
C7_BatchThrottle ==
    [][BatchStep =>
          /\ (now - lastScanTime < ScanThrottle) =>
                 /\ scans' = scans
                 /\ text' = text
                 /\ processedNodes' = processedNodes
                 /\ merges' = merges
          /\ (ScanStep /\ IsDefined(lastBatchScan)) =>
                 now - Val(lastBatchScan) >= ScanThrottle]_vars

\* a batch with transformable text was dropped less than ScanThrottle
\* after a batch that started a scan
C7_Witness ==
    /\ IsDefined(lastBatch) /\ IsDefined(lastBatchScan)
    /\ Val(lastBatch).outcome = "dropped"
    /\ Val(lastBatch).time > Val(lastBatchScan)
    /\ Val(lastBatch).time - Val(lastBatchScan) < ScanThrottle
    /\ \E n \in Nodes : docChanged /\ n \notin processedNodes
                         /\ ~InExcludedRegion(n) /\ Transformable(settings, n)

\* C8: a scan starts at least ScanThrottle after the start of the scan
\* before it, whatever triggered the two.
C8_ScanStartsApart ==
    [][(ScanStep /\ IsDefined(lastStart)) =>
          now - Val(lastStart) >= ScanThrottle]_vars

\* C9: when a merge completes, the persisted history has at most
\* HistoryLimit entries and is the last HistoryLimit entries of the
\* history persisted before followed by the entries of that merge's scan.
C9_HistoryBound ==
    [][Len(merges') < Len(merges) =>
          /\ Len(Val(store'.history)) <= HistoryLimit
          /\ Val(store'.history)
                = SliceLast(Val(store.history) \o Head(merges).localHistory,
                            HistoryLimit)]_vars

\* C10: no step of the engine rewrites a text node of an excluded region,
\* adds it to the ProcessedSet or pushes an entry for it.
C10_ScanExclusion ==
    [][~HostStep =>
          \A n \in Nodes :
              InExcludedRegion(n) =>
                  /\ text'[n] = text[n]
                  /\ n \in processedNodes' => n \in processedNodes
                  /\ ScanStep => /\ n \notin lastScan'.accepted
                                  /\ n \notin lastScan'.wrote
                                  /\ n \notin lastScan'.logged]_vars

\* a scan has run and written a node while a node of an excluded region
\* held transformable text, which it still holds
C10_Witness ==
    /\ scans >= 1
    /\ ~docChanged
    /\ lastScan.wrote # {}
    /\ \E n \in Nodes :
          /\ InExcludedRegion(n)
          /\ n \notin processedNodes
          /\ needsProcessing(settings, text[n])
          /\ Transformable(settings, n)

-----------------------------------------------------------------------------
\* C11: a batch that arrives outside the throttle window and reports a
\* host change of the character data of a non-excluded node, whose text
\* the transform changes, starts a scan that writes the normalized text
\* into that node, whether or not the engine wrote the node before.
C11_DetectsModified ==
    [][(BatchStep /\ docChanged /\ isActive
          /\ ~Throttled(now, lastScanTime)) =>
          \A m \in pendingMut :
              (/\ m.type = "characterData"
               /\ ~InExcludedRegion(m.node)
               /\ Transformable(settings, m.node)) =>
                  text'[m.node]
                     = applyTextFixes(settings, text[m.node]).fixedText]_vars

\* C12: for every settings snapshot and every text, the pre-check
\* needsProcessing accepts the text exactly when applyTextFixes returns a
\* text different from it.
C12_PrecheckConsistent ==
    tlOnce.applied =>
        (needsProcessing(tlSettings, tlInput) <=> tlOnce.fixedText # tlInput)

\* the snapshot enables the dash step and no other step
OnlyDashStep(s) ==
    /\ s.fixEmDash
    /\ ~s.fixCurlyQuotes /\ ~s.fixEllipsis /\ ~s.fixInvisibleChars
    /\ ~s.fixAccents /\ ~s.fixSpaces

\* C13: with a replacement string stored in the settings store, the empty
\* string included, the transform run under the settings loaded from the
\* store replaces every U+2014 and U+2013 by exactly the stored string.
C13_StoredReplacer ==
    (tlOnce.applied /\ IsDefined(tlData.replacer) /\ OnlyDashStep(tlSettings)) =>
        tlOnce.fixedText = ReplaceIn(tlInput, DashChars, Val(tlData.replacer))

\* the text example 2 expects
Example2Output ==
    <<"dq", "Q", "u", "o", "t", "e", "d", "dq", "sp", "t", "e", "x", "t",
      "dot", "dot", "dot", "sp", "h", "e", "r", "e">>

\* C14: with the quote, ellipsis and space fixes enabled, the text of
\* example 2 is transformed to the expected text with the counts
\* curlyQuotes = 2, ellipsis = 1 and spaces = 1.
C14_Example2 ==
    (/\ tlOnce.applied
     /\ tlInput = Example2Input
     /\ tlSettings.fixCurlyQuotes /\ tlSettings.fixEllipsis
     /\ tlSettings.fixSpaces) =>
        /\ tlOnce.fixedText = Example2Output
        /\ tlOnce.fixCounts.curlyQuotes = 2
        /\ tlOnce.fixCounts.ellipsis = 1
        /\ tlOnce.fixCounts.spaces = 1

-----------------------------------------------------------------------------
\* C17: once destroy() has been called, during start-up or after it, the
\* engine is never active again, is never subscribed to mutation
\* notifications again, and no step of it rewrites a node.
C17_ShutdownFinal ==
    /\ [](epoch > 0 => (~isActive /\ ~observer))
    /\ [][(epoch > 0 /\ ~HostStep) => text' = text]_vars

-----------------------------------------------------------------------------
(* Properties of the engine on a failing host and store.                   *)

\* a merge has completed: its storage.set has written
MergeDoneStep == Len(merges') < Len(merges) /\ hostOps' = hostOps

\* C15: after the store read or write of a merge has failed, the merge of
\* a scan started after the failure, completing with no other merge in
\* flight, leaves the persisted total and history holding the
\* contribution of every scan so far, the scan whose merge failed included.
C15_FailedMergeRetried ==
    [][(/\ MergeDoneStep
        /\ \E f \in faults : /\ f.kind \in {"mergeGet", "mergeSet"}
                              /\ Head(merges).scan > f.scans
        /\ merges' = <<>>) =>
          /\ Val(store'.totalReplacements)
                = Val(InstallDefaults.totalReplacements) + replacementCount
          /\ Val(store'.history)
                = SliceLast(Val(InstallDefaults.history) \o allEntries,
                            HistoryLimit)]_vars

\* the settings loadSettings builds when no key is stored: replacement
\* "-", every category on except the accents
BuiltInDefaults ==
    LoadSettings([k \in DOMAIN InstallDefaults |-> Undefined])

\* C16: when the read of the settings store in init() has failed, the
\* engine is active with the built-in defaults, is subscribed to mutation
\* notifications and has gone on to its start-up scans.
C16_StartupFallback ==
    initPc = "failed" =>
        /\ isActive
        /\ observer
        /\ settings = BuiltInDefaults

\* node n is one a scan under settings s hands to the transform and
\* tries to write
Eligible(s, n) ==
    /\ where[n] \in ScannedRoots
    /\ n \notin processedNodes
    /\ ~InExcludedRegion(n)
    /\ needsProcessing(s, text[n])
    /\ Transformable(s, n)

\* the fixes the transform under settings s counts on the nodes of S
RECURSIVE FixesOn(_, _)
FixesOn(S, s) ==
    IF S = {} THEN 0
    ELSE LET n == CHOOSE m \in S : TRUE IN
         TotalFixes(applyTextFixes(s, text[n]).fixCounts) + FixesOn(S \ {n}, s)

\* C19: in a scan, a node whose write throws keeps its text, stays out of
\* the ProcessedSet, gets no entry and adds nothing to the scan's count,
\* and every eligible node after it in the order of the scan is still
\* written, marked and logged.
C19_WriteFailureIsolated ==
    [][(ScanStep /\ isActive /\ ~lastScan'.threw) =>
          \A n \in Nodes :
              (Eligible(settings', n) /\ n \in broken) =>
                  /\ text'[n] = text[n]
                  /\ n \notin processedNodes'
                  /\ n \notin lastScan'.logged
                  /\ replacementCount' - replacementCount
                        = FixesOn(lastScan'.wrote \ {n}, settings')
                  /\ \A m \in Nodes :
                        (/\ Eligible(settings', m)
                         /\ m \notin broken
                         /\ ScanIndex(m) > ScanIndex(n)) =>
                            /\ text'[m] = applyTextFixes(settings', text[m]).fixedText
                            /\ m \in processedNodes'
                            /\ m \in lastScan'.logged]_vars

\* a scan has caught the failing write of a node and has written a node
\* that comes after it
C19_Witness ==
    \E n \in lastScan.failed, m \in lastScan.wrote :
        /\ ScanIndex(m) > ScanIndex(n)
        /\ n \notin processedNodes
        /\ m \in processedNodes

\* the failures that a scan or a merge catches
CaughtKinds == {"write", "scan", "mergeGet", "mergeSet"}

\* the step is one in which a write, a scan or a merge fails
FailureStep == \E f \in faults' \ faults : f.kind \in CaughtKinds

\* C20: a step in which a write, a scan or a merge fails leaves isActive
\* and the subscription of the observer as they were; and after such a
\* failure, while the engine is active, every mutation batch that is
\* delivered ScanThrottle or more after lastScanTime and holds a record of
\* a node whose text the transform changes starts a scan.
C20_NoFailureFatal ==
    /\ [][FailureStep => (isActive' = isActive /\ observer' = observer)]_vars
    /\ [][(/\ BatchStep
           /\ isActive
           /\ \E f \in faults : f.kind \in CaughtKinds
           /\ now - lastScanTime >= ScanThrottle
           /\ \E m \in pendingMut : Transformable(settings, m.node)) => ScanStep]_vars

\* a batch delivered after a failure of an active, subscribed engine
\* started a scan
C20_Witness ==
    /\ isActive /\ observer
    /\ IsDefined(lastBatch)
    /\ Val(lastBatch).outcome = "scanned"
    /\ \E f \in faults : /\ f.kind \in CaughtKinds
                         /\ f.time < Val(lastBatch).time
                         /\ f.scans < scans

-----------------------------------------------------------------------------
(* Properties of the engine on a page with shadow trees.                   *)

\* C18: a scan treats the text nodes of every shadow tree, nested ones
\* included, as it treats those of the document: a node outside the
\* ProcessedSet and outside an excluded region, whose text the transform
\* changes, is rewritten and logged by the scan.
C18_ShadowCoverage ==
    [][(ScanStep /\ isActive) =>
          \A n \in Nodes :
              (/\ where[n] \in Places
               /\ n \notin processedNodes
               /\ ~InExcludedRegion(n)
               /\ Transformable(settings', n)) =>
                  /\ text'[n] = applyTextFixes(settings', text[n]).fixedText
                  /\ n \in lastScan'.logged]_vars

-----------------------------------------------------------------------------
(* Properties of the mutation monitor when nothing needs processing.       *)

\* C29: a batch delivered ScanThrottle or more after lastScanTime, in which
\* the pre-check finds no record with target text, starts no scan and
\* leaves lastScanTime as it was; and a batch with target text delivered
\* at the same instant as such a batch, ScanThrottle or more after the
\* start of the last scan, starts a scan.
C29_IdleBatchKeepsIdle ==
    /\ [][(/\ BatchStep
           /\ now - lastScanTime >= ScanThrottle
           /\ ~ShouldScan(settings, text, pendingMut)) =>
              (scans' = scans /\ lastScanTime' = lastScanTime)]_vars
    /\ [][(/\ BatchStep /\ isActive
           /\ IsDefined(lastBatch)
           /\ Val(lastBatch).outcome = "idle"
           /\ Val(lastBatch).time = now
           /\ IsDefined(lastStart) => now - Val(lastStart) >= ScanThrottle
           /\ ShouldScan(settings, text, pendingMut)) => ScanStep]_vars

-----------------------------------------------------------------------------
(* Properties of the per-category counters of the store.                   *)

\* the sum of the counts of category c over the entries of h
RECURSIVE CategorySum(_, _)
CategorySum(h, c) ==
    IF h = <<>> THEN 0 ELSE Head(h).fixCounts[c] + CategorySum(Tail(h), c)

\* the persisted counter of category c, 0 when the store holds none
PersistedCount(st, c) ==
    IF IsDefined(st.fixStats) /\ Val(st.fixStats)[c].kind = "number"
    THEN Val(st.fixStats)[c].n
    ELSE 0

\* C30: the storage.set of a merge leaves, for every category, the number
\* that is the counter persisted before it (0 when the store holds none)
\* plus the sum of that category's counts over the entries of the scan;
\* and every counter the store holds is a non-negative integer.
C30_PerCategoryMerge ==
    /\ [][MergeDoneStep =>
             \A c \in Categories :
                 Val(store'.fixStats)[c]
                    = Num(PersistedCount(store, c)
                          + CategorySum(Head(merges).localHistory, c))]_vars
    /\ [](\A c \in Categories :
             IsDefined(store.fixStats) =>
                 \/ Val(store.fixStats)[c].kind = "undefined"
                 \/ Val(store.fixStats)[c].kind = "number"
                    /\ Val(store.fixStats)[c].n >= 0)

-----------------------------------------------------------------------------
(* Properties of the single steps of the transform.                        *)

\* the text example 1 expects
Example1Output == <<"H", "e", "l", "l", "o", "hy", "w", "o", "r", "l", "d">>

\* C25: with the dash fix enabled, the emDash count of a text is the
\* number of U+2014 and U+2013 characters in it, whatever the replacement
\* string (0 for a text without them); and with only the dash fix enabled
\* and the replacement "-", the text of example 1 becomes "Hello-world"
\* with emDash = 1 and every other count 0.
C25_DashCount ==
    /\ (tlOnce.applied /\ tlSettings.fixEmDash) =>
           tlOnce.fixCounts.emDash = CountIn(tlInput, DashChars)
    /\ (/\ tlOnce.applied
        /\ tlInput = Example1Input
        /\ OnlyDashStep(tlSettings)
        /\ tlSettings.replacer = <<"hy">>) =>
           /\ tlOnce.fixedText = Example1Output
           /\ tlOnce.fixCounts = [ZeroCounts EXCEPT !.emDash = 1]

\* the transform has run on a text with both dash characters under a
\* replacement of two characters, one of them a dash
C25_Witness ==
    /\ tlOnce.applied
    /\ tlSettings.fixEmDash
    /\ Len(tlSettings.replacer) = 2
    /\ HasChar(tlInput, {"em"}) /\ HasChar(tlInput, {"en"})
    /\ tlOnce.fixCounts.emDash = 2

\* the flag of a category in a settings snapshot
Enabled(s, c) ==
    CASE c = "emDash" -> s.fixEmDash
      [] c = "curlyQuotes" -> s.fixCurlyQuotes
      [] c = "ellipsis" -> s.fixEllipsis
      [] c = "invisibleChars" -> s.fixInvisibleChars
      [] c = "accents" -> s.fixAccents
      [] c = "spaces" -> s.fixSpaces

\* the characters a category is about
ClassOf(c) ==
    CASE c = "emDash" -> DashChars
      [] c = "curlyQuotes" -> CurlyQuoteChars
      [] c = "ellipsis" -> EllipsisChars
      [] c = "invisibleChars" -> InvisibleChars
      [] c = "accents" -> AccentMapChars
      [] c = "spaces" -> WhitespaceChars

\* C26: for every snapshot and every input, a disabled category has
\* count 0 and every character of its class is in the output as often as
\* in the input, whatever the other flags are.
C26_DisabledInert ==
    tlOnce.applied =>
        \A c \in Categories :
            ~Enabled(tlSettings, c) =>
                /\ tlOnce.fixCounts[c] = 0
                /\ \A ch \in ClassOf(c) :
                       CountIn(tlOnce.fixedText, {ch}) >= CountIn(tlInput, {ch})

\* C27: under a snapshot with every flag false the transform returns its
\* input with all six counts 0, whatever the replacement string, and the
\* pre-check rejects the text.
C27_AllDisabledIdentity ==
    (/\ tlOnce.applied
     /\ \A c \in Categories : ~Enabled(tlSettings, c)) =>
        /\ tlOnce.fixedText = tlInput
        /\ tlOnce.fixCounts = ZeroCounts
        /\ ~needsProcessing(tlSettings, tlInput)

\* the transform has run with every flag false on a text that holds a
\* dash, a non-breaking space and leading whitespace
C27_Witness ==
    /\ tlOnce.applied
    /\ \A c \in Categories : ~Enabled(tlSettings, c)
    /\ tlInput = <<"sp", "em", "nbsp">>
    /\ tlSettings.replacer = <<"em", "hy">>

\* the unaccented letter of a character of the table
Unaccented(ch) == IF ch = "eacute" THEN "e" ELSE ch

\* C28: the accent step, when enabled, replaces every character of the
\* table by its unaccented letter, leaves every other character (the
\* other characters of the range included) as it is and counts the
\* characters of the table; when disabled it changes nothing and counts
\* 0; the count it sets is the count the transform returns. The text
\* "caf" U+00E9 becomes "cafe" with accents = 1 when the step is enabled
\* and is unchanged with accents = 0 when every step is disabled.
C28_DiacriticStep ==
    tlOnce.applied =>
        LET pre == BeforeAccents(tlSettings, tlInput)
            post == AccentStep(pre)
        IN /\ tlSettings.fixAccents =>
                 /\ Len(post.fixedText) = Len(pre.fixedText)
                 /\ \A i \in 1..Len(pre.fixedText) :
                        post.fixedText[i] = IF pre.fixedText[i] \in AccentMapChars
                                            THEN Unaccented(pre.fixedText[i])
                                            ELSE pre.fixedText[i]
                 /\ post.fixCounts.accents = CountIn(pre.fixedText, AccentMapChars)
           /\ ~tlSettings.fixAccents =>
                 /\ post.fixedText = pre.fixedText
                 /\ post.fixCounts.accents = 0
           /\ tlOnce.fixCounts.accents = post.fixCounts.accents
           /\ (tlInput = Example3Input /\ tlSettings.fixAccents) =>
                 /\ tlOnce.fixedText = <<"c", "a", "f", "e">>
                 /\ tlOnce.fixCounts.accents = 1
           /\ (tlInput = Example3Input /\ ~tlSettings.fixAccents) =>
                 /\ tlOnce.fixedText = Example3Input
                 /\ tlOnce.fixCounts.accents = 0

\* the accent step has run on a text with a character of the table and a
\* character of the range outside the table
C28_Witness ==
    /\ tlOnce.applied
    /\ tlSettings.fixAccents
    /\ tlInput = <<"eacute", "times", "a">>
    /\ tlOnce.fixedText = <<"e", "times", "a">>
    /\ tlOnce.fixCounts.accents = 1

\* ---------------------------------------------------------------------
\* Unknown requests

\* the actions each listener recognises
Recognised(to) ==
    IF to = "content" THEN {"ping", "testReplace", "settingsUpdated"}
    ELSE {"updateStats", "getStatus", "logError"}

\* a step that delivers a request whose action its receiver does not know
UnknownRequestStep ==
    /\ probe'.n = probe.n + 1
    /\ probe'.action \notin Recognised(probe'.to)

\* C21: every request whose action is not one of the recognised kinds
\* receives exactly one response with success = false and an error, and
\* starts no scan, no settings reload and no store write
C21_UnknownAnswered ==
    [][UnknownRequestStep =>
          /\ Len(sent') = 1
          /\ sent'[1].kind = "response"
          /\ sent'[1].success = FALSE
          /\ sent'[1].error # Undefined
          /\ UNCHANGED <<scans, settings, pendingLoads, store, merges, writes>>]_vars

\* ---------------------------------------------------------------------
\* Settings-changed protocol

\* a step that answers a settingsUpdated request with success
ReloadAnswered ==
    /\ pendingLoads' = pendingLoads - 1
    /\ Len(sent') = 1
    /\ sent'[1].kind = "response"
    /\ sent'[1].action = "settingsUpdated"
    /\ sent'[1].success

\* C22: on a settings-changed request the engine first re-reads the
\* settings, then runs exactly one scan that uses the re-read values, and
\* only after that scan sends the {success: true} response
C22_ReloadThenScanThenAnswer ==
    [][ReloadAnswered =>
          /\ settings' = LoadSettings(store)
          /\ scans' = scans + 1
          /\ sent'[1].scans = scans + 1
          /\ lastStart' = Some(now)
          /\ text' = ReplaceInRoot(processedNodes, settings', text, parent, now).text]_vars

\* ---------------------------------------------------------------------
\* Statistics broadcast

\* a step in which the storage.set of the oldest merge returns
MergeEnds ==
    /\ merges # <<>>
    /\ Head(merges).phase = "set"
    /\ merges' = Tail(merges)

\* a step that sends a statistics notification
StatsSent ==
    /\ sent' # sent \/ MergeEnds
    /\ \E i \in 1..Len(sent') : sent'[i].kind = "updateStats"

RECURSIVE ConcatAfter(_)
\* the after-texts of the entries h, one after the other
ConcatAfter(h) ==
    IF h = <<>> THEN <<>> ELSE Head(h).after \o ConcatAfter(Tail(h))

\* the text t without its line breaks
WithoutBreaks(t) == SelectSeq(t, LAMBDA ch : ch # "nl")

\* C23: a statistics notification is sent only after the store write of a
\* merge has completed, exactly once per successful merge and never for a
\* failed merge; its count is that scan's replacement count and its text
\* is made of the after-texts of that scan's entries, in scan order
C23_StatsAfterWrite ==
    /\ [][StatsSent =>
            /\ MergeEnds
            /\ store'.history = Some(Head(merges).data.history)
            /\ store'.totalReplacements = Some(Head(merges).data.totalReplacements)]_vars
    /\ [][MergeEnds =>
            IF store'.history = Some(Head(merges).data.history)
            THEN /\ Len(sent') = 1
                 /\ sent'[1].kind = "updateStats"
                 /\ sent'[1].count = Head(merges).count
                 /\ WithoutBreaks(sent'[1].processedText)
                       = ConcatAfter(Head(merges).localHistory)
            ELSE sent' = <<>>]_vars

\* ---------------------------------------------------------------------
\* Start-up scan

\* start-up is over: settings loaded, observer subscribed, engine active
Started == initPc \in {"waitPage", "done"} /\ isActive /\ observer

\* a timer set now is due before the last instant has passed
InTime == \E d \in TimerDelays : now + d <= Horizon

\* the load event has not arrived and a timer set now would be due after
\* the last instant
LateLoad == initPc = "waitPage" /\ ~InTime

\* C24: after start-up, unless the engine is stopped, a scan of the whole
\* document is eventually performed although no mutation of the page and
\* no request is ever delivered
C24_StartupScan == (Started /\ InTime) ~> (scans > 0 \/ ~isActive \/ LateLoad)

\* the first scan was started by a timer of performInitialScan, the page
\* having changed nothing and no request having been received
C24_Witness ==
    /\ scans = 1
    /\ isActive
    /\ initPc = "done"
    /\ lastStart = Some(Horizon)
    /\ probe = NoProbe
    /\ sent = <<>>
    /\ lastBatchScan = Undefined
    /\ hostOps = 0

\* ---------------------------------------------------------------------
\* Space normalization condition

\* the text the space step receives
SpaceInput == AccentStep(BeforeAccents(tlSettings, tlInput)).fixedText

\* its collapsed-and-trimmed form
SpaceForm == Trim(CollapseSpaces(SpaceInput))

\* C31: with space-fix enabled, the space step replaces the text by its
\* collapsed-and-trimmed form and reports a non-zero spaces count exactly
\* when that form differs from the step's input text; when the form equals
\* the input, the text is unchanged and spaces = 0
C31_SpaceCondition ==
    tlOnce.applied /\ tlSettings.fixSpaces =>
        IF SpaceForm # SpaceInput
        THEN tlOnce.fixedText = SpaceForm /\ tlOnce.fixCounts.spaces > 0
        ELSE tlOnce.fixedText = SpaceInput /\ tlOnce.fixCounts.spaces = 0

\* C31, amended: the same with the form compared to the step's input text
\* without its leading and trailing whitespace
C31_SpaceConditionTrimmed ==
    tlOnce.applied /\ tlSettings.fixSpaces =>
        IF SpaceForm # Trim(SpaceInput)
        THEN tlOnce.fixedText = SpaceForm /\ tlOnce.fixCounts.spaces > 0
        ELSE tlOnce.fixedText = SpaceInput /\ tlOnce.fixCounts.spaces = 0

\* a text with two runs of whitespace, one of them longer than one
\* character, has been replaced by its form and counted
C31_Witness ==
    /\ tlOnce.applied
    /\ tlSettings.fixSpaces
    /\ SpaceForm # Trim(SpaceInput)
    /\ tlOnce.fixedText = SpaceForm
    /\ tlOnce.fixCounts.spaces = 2

\* ---------------------------------------------------------------------
\* Scan trigger condition

\* a step that handles a batch arriving outside the throttle window
FreshBatchStep == pendingMut # {} /\ ~Throttled(now, lastScanTime)

\* node n is rewritten by the scan of this step if it is eligible
CoveredByScan(n) ==
    (/\ n \notin processedNodes
     /\ ~InExcludedRegion(n)
     /\ Transformable(settings, n)) =>
        /\ text'[n] = applyTextFixes(settings, text[n]).fixedText
        /\ n \in lastScan'.logged

\* C32: for a batch that arrives outside the throttle window a scan is
\* started if and only if a node added or modified by the batch holds text
\* that passes the pre-check; the scan then covers the document body and
\* the shadow trees, not only the nodes of the batch, and the scan time is
\* recorded
C32_ScanTrigger ==
    [][FreshBatchStep =>
          /\ ScanStep <=> ShouldScan(settings, text, pendingMut)
          /\ ScanStep =>
                /\ lastScanTime' = now
                /\ lastStart' = Some(now)
                /\ \A n \in Nodes : where[n] \in Places => CoveredByScan(n)]_vars

\* ---------------------------------------------------------------------
\* ProcessedSet membership

\* the nodes a scan wrote, in the order of the scan
WroteOrder(wrote) == SelectSeq(DocOrder, LAMBDA n : n \in wrote)

\* the entries the scan of this step added to those of the earlier scans
NewEntries == SubSeq(allEntries', Len(allEntries) + 1, Len(allEntries'))

\* C33: a node is in the ProcessedSet if and only if the engine has
\* rewritten it since the last reset; each rewrite emits exactly one
\* HistoryEntry whose before is the text read and whose after is the text
\* written; an eligible node whose transform output equals its input is
\* neither written, nor added to the set, nor logged
C33_ProcessedSetMembership ==
    /\ [](\A n \in Nodes : n \in processedNodes <=> writes[n] > 0)
    /\ [][ScanStep =>
            /\ lastScan'.logged = lastScan'.wrote
            /\ \A n \in Nodes :
                  /\ n \in lastScan'.wrote <=> writes'[n] = writes[n] + 1
                  /\ n \in lastScan'.wrote => text'[n] # text[n]
                  /\ (n \in lastScan'.accepted /\ ~Transformable(settings', n)) =>
                        /\ text'[n] = text[n]
                        /\ n \notin lastScan'.wrote
                        /\ n \notin lastScan'.logged
                        /\ (n \in processedNodes' <=> n \in processedNodes)
            /\ ~lastScan'.threw =>
                  /\ Len(NewEntries) = Cardinality(lastScan'.wrote)
                  /\ \A i \in 1..Len(NewEntries) :
                        /\ NewEntries[i].before = text[WroteOrder(lastScan'.wrote)[i]]
                        /\ NewEntries[i].after = text'[WroteOrder(lastScan'.wrote)[i]]]_vars

\* a scan has rewritten one node, which is in the set, and has handed the
\* other node to the transform, which returned its text: it is not in the
\* set
C33_Witness ==
    /\ scans > 0
    /\ lastScan.wrote = {"n1"}
    /\ writes["n1"] = 1
    /\ processedNodes = {"n1"}
    /\ "n2" \in lastScan.accepted
    /\ lastScan.failed = {}
    /\ "n2" \notin lastScan.logged

\* ---------------------------------------------------------------------
\* Bounded time-based scans

\* a step that answers a request by a scan
RequestScanStep ==
    /\ Len(sent') = 1
    /\ sent'[1].kind = "response"
    /\ sent'[1].action \in {"testReplace", "settingsUpdated"}
    /\ sent'[1].success
    /\ sent'[1].scans = scans'

\* C34: an engine start sets three timers and no timer is set again; a
\* scan is started by one of these timers, by a mutation batch, by an
\* immediate-scan request or by a settings-changed request, so that at
\* most three scans are started by timers
C34_BoundedTimerScans ==
    /\ [][timers' # timers =>
            \/ /\ timers = {}
               /\ initPc # "done"
               /\ initPc' = "done"
               /\ Cardinality(timers') = 3
            \/ \E t \in timers : timers' = timers \ {t}]_vars
    /\ [][initPc = "done" => initPc' = "done"]_vars
    /\ [][ScanStep =>
            \/ \E t \in timers : timers' = timers \ {t}
            \/ pendingMut # {}
            \/ RequestScanStep]_vars

\* the three timers have fired and each has started a scan; no batch and
\* no request has started one
C34_Witness ==
    /\ initPc = "done"
    /\ timers = {}
    /\ isActive
    /\ scans = 3
    /\ lastBatchScan = Undefined
    /\ sent = <<>>

\* ---------------------------------------------------------------------
\* Configured throttle interval

\* the throttle interval the stored keys d ask for
ConfiguredInterval(d) ==
    IF IsDefined(d.scanThrottle) THEN Val(d.scanThrottle) ELSE ScanThrottle

\* C35: a batch is dropped exactly when it arrives less than the stored
\* throttle interval after the recorded scan time, the interval being the
\* one the store held at the last engine start or settings reload (100 ms
\* when none is stored)
C35_ConfiguredThrottle ==
    [][(pendingMut # {} /\ pendingLoads = 0) =>
          (Val(lastBatch').outcome = "dropped"
              <=> now - lastScanTime < ConfiguredInterval(store))]_vars

\* ---------------------------------------------------------------------
\* History order

RECURSIVE IsSubsequence(_, _)
\* the entries of a are entries of b, in the order they have in b
IsSubsequence(a, b) ==
    IF a = <<>> THEN TRUE
    ELSE IF b = <<>> THEN FALSE
    ELSE IF Head(a) = Head(b) THEN IsSubsequence(Tail(a), Tail(b))
    ELSE IsSubsequence(a, Tail(b))

C37_CleanAfterScan ==
    [][(ScanStep /\ lastScan'.failed = {} /\ ~lastScan'.threw) =>
          \A n \in Nodes :
              (/\ where[n] = "body"
               /\ ~IsExcludedParent(parent'[n])
               /\ n \notin processedNodes') =>
                  applyTextFixes(settings', text'[n]).fixedText = text'[n]]_vars

\* ---------------------------------------------------------------------
\* Quiescence

\* the batch waiting for delivery holds the records of the engine's own
\* writes: the page has changed nothing since the last scan
OwnBatch == pendingMut # {} /\ scans > 0 /\ ~docChanged

\* C38: the batch caused by the engine's own writes leads to no write of
\* any node and so to no further batch, whatever the settings, a
\* replacement string that contains a dash included: when the page stops
\* changing the document the engine comes to rest
C38_Quiescence ==
    [][OwnBatch =>
          /\ text' = text
          /\ writes' = writes
          /\ processedNodes' = processedNodes
          /\ pendingMut' = {}]_vars

\* the batch of the engine's own writes has started a scan although a
\* node of the ProcessedSet holds a dash again; the scan wrote nothing
C38_Witness ==
    /\ scans >= 2
    /\ lastScan.clean
    /\ lastBatchScan = lastStart
    /\ lastScan.wrote = {}
    /\ pendingMut = {}
    /\ \E n \in processedNodes : HasChar(text[n], DashChars)


\* ---------------------------------------------------------------------
\* Effects of a scan

\* the scan of this step queued exactly one merge, that of its entries
OneMergeStarted ==
    /\ Len(merges') = Len(merges) + 1
    /\ SubSeq(merges', 1, Len(merges)) = merges
    /\ merges'[Len(merges')].phase = "get"
    /\ merges'[Len(merges')].localHistory = NewEntries
    /\ merges'[Len(merges')].count = replacementCount' - replacementCount

\* C39: a scan that rewrites no node leaves the in-memory replacement
\* count unchanged, neither reads nor writes the settings store (it
\* queues no merge) and sends no statistics notification; a scan that
\* rewrites at least one node raises the replacement count by at least 1,
\* by the sum of totalFixes over its entries, and starts exactly one merge
C39_ScanEffects ==
    [][ScanStep =>
          IF lastScan'.wrote = {}
          THEN /\ replacementCount' = replacementCount
               /\ merges' = merges
               /\ store' = store
               /\ allEntries' = allEntries
               /\ ~StatsSent
          ELSE /\ replacementCount' - replacementCount = SumTotalFixes(NewEntries)
               /\ replacementCount' - replacementCount >= 1
               /\ Len(NewEntries) = Cardinality(lastScan'.wrote)
               /\ OneMergeStarted
               /\ store' = store
               /\ ~StatsSent]_vars

====
